---------------------------- MODULE Spec2Model ----------------------------
(***************************************************************************)
(* Model of src/main.go: the CSV-to-INSERT converter.                      *)
(*                                                                         *)
(* Text is modelled as what it is: a sequence of bytes (numbers 0..255).   *)
(* The output statement, the files and every field are byte sequences, so  *)
(* that formatting and parsing are computed, not assumed.                  *)
(*                                                                         *)
(* Two ways into the program are modelled (variable entry):                *)
(*   "main"        a run of main() from its first line, on files chosen    *)
(*                 from bounded sets;                                      *)
(*   "GenerateSQL" lines 50-59 of main (MapHeadersToSchema, GenerateSQL,   *)
(*                 WriteSQLToFile) started with a header list and an       *)
(*                 in-memory io.Reader that delivers the data records, as  *)
(*                 a caller of the exported functions supplies them.       *)
(***************************************************************************)
EXTENDS Integers, Sequences, FiniteSets

(***************************************************************************)
(* Bounds of the model.                                                    *)
(***************************************************************************)
\* longest body (bytes after an optional byte-order mark) of an input file
MaxBody == 4
\* most data rows handed to GenerateSQL through an in-memory reader
MaxRows == 3
\* largest len(os.Args) tried
MaxArgs == 5
\* iterations of the row loop that are followed (the loop counter i itself
\* is unbounded in the program)
MaxIter == 5

(***************************************************************************)
(* Byte strings.                                                           *)
(***************************************************************************)
Ch == [nl |-> 10, comma |-> 44, quote |-> 34, nul |-> 0]

Take(s, n) == SubSeq(s, 1, n)
Drop(s, n) == SubSeq(s, n + 1, Len(s))

\* bytes.IndexByte + 1: the first position of b in s, 0 when absent
IndexOf(s, b) ==
    IF \E k \in 1..Len(s) : s[k] = b
    THEN CHOOSE k \in 1..Len(s) : s[k] = b /\ \A m \in 1..(k - 1) : s[m] # b
    ELSE 0

RECURSIVE Flatten(_)
Flatten(ss) == IF ss = <<>> THEN <<>> ELSE Head(ss) \o Flatten(Tail(ss))

\* strings.Join(parts, sep)
RECURSIVE Join(_, _)
Join(parts, sep) ==
    IF parts = <<>> THEN <<>>
    ELSE IF Len(parts) = 1 THEN parts[1]
    ELSE parts[1] \o sep \o Join(Tail(parts), sep)

\* the string literals of main.go
Lit == [insertInto |-> <<73, 78, 83, 69, 82, 84, 32, 73, 78, 84, 79, 32, 96>>, \* "INSERT INTO `"
        openCols   |-> <<96, 32, 40>>,                                       \* "` ("
        commaSp    |-> <<44, 32>>,                                           \* ", "
        values     |-> <<41, 10, 86, 65, 76, 85, 69, 83, 10>>,               \* ")\nVALUES\n"
        semiNl     |-> <<59, 10>>,                                           \* ";\n"
        commaNl    |-> <<44, 10>>,                                           \* ",\n"
        lparen     |-> <<40>>,
        rparen     |-> <<41>>,
        squote     |-> <<39>>,
        btick      |-> <<96>>]

\* the type tags convertData switches on
Tag == [int      |-> <<105, 110, 116>>,
        BIGINT   |-> <<66, 73, 71, 73, 78, 84>>,
        VARCHAR  |-> <<86, 65, 82, 67, 72, 65, 82>>,
        varchar  |-> <<118, 97, 114, 99, 104, 97, 114>>,
        nvarchar |-> <<110, 118, 97, 114, 99, 104, 97, 114>>,
        datetime |-> <<100, 97, 116, 101, 116, 105, 109, 101>>,
        DATETIME |-> <<68, 65, 84, 69, 84, 73, 77, 69>>]

\* the UTF-8 byte-order mark EF BB BF
BOM == <<239, 187, 191>>

(***************************************************************************)
(* The readers main.go builds: bytes.Reader + *os.File under io.MultiReader *)
(* under the bufio.Reader of a csv.Reader.  One record s carries the whole *)
(* chain through a read:                                                   *)
(*   buf, perr, fpr   the csv.Reader: bytes buffered and not yet parsed,   *)
(*                    bufio's pending error, FieldsPerRecord               *)
(*   mem              bytes left in the bytes.Reader                       *)
(*   hasFile          the chain ends in the file handle                    *)
(*   fdata, fpos, fstate  the file, the handle's offset, "open"/"closed"   *)
(*   badRead          a Read was issued on the closed handle               *)
(* The inputs are far shorter than bufio's 4096-byte buffer, so one Read   *)
(* of the source returns everything the source has.                        *)
(***************************************************************************)
NewCsv == [buf |-> <<>>, perr |-> "nil", fpr |-> 0]

Chain(c, rd, f, bad) ==
    [buf |-> c.buf, perr |-> c.perr, fpr |-> c.fpr,
     mem |-> rd.mem, hasFile |-> rd.hasFile,
     fdata |-> f.data, fpos |-> f.pos, fstate |-> f.state, badRead |-> bad]

CsvOf(s) == [buf |-> s.buf, perr |-> s.perr, fpr |-> s.fpr]
ReaderOf(s) == [mem |-> s.mem, hasFile |-> s.hasFile]

\* One Read of the source with bufio's free buffer: the bytes.Reader first;
\* when it is at EOF io.MultiReader moves on to the file; a closed *os.File
\* answers every Read with os.ErrClosed, which is not io.EOF.
srcRead(s) ==
    IF s.mem # <<>>
    THEN [data |-> s.mem, err |-> "nil", s |-> [s EXCEPT !.mem = <<>>]]
    ELSE IF ~s.hasFile
    THEN [data |-> <<>>, err |-> "EOF", s |-> s]
    ELSE IF s.fstate # "open"
    THEN [data |-> <<>>, err |-> "ErrClosed", s |-> [s EXCEPT !.badRead = TRUE]]
    ELSE IF s.fpos < Len(s.fdata)
    THEN [data |-> Drop(s.fdata, s.fpos), err |-> "nil",
          s |-> [s EXCEPT !.fpos = Len(s.fdata)]]
    ELSE [data |-> <<>>, err |-> "EOF", s |-> s]

\* bufio.Reader.ReadSlice('\n'): search the buffer, then hand out a pending
\* error with whatever is buffered, else fill() and look again.
\* bufio.Reader.fill: one Read of the source, appended to the buffer; its
\* error is kept pending
filled(s, r) == [r.s EXCEPT !.buf = s.buf \o r.data, !.perr = r.err]
fill(s) == filled(s, srcRead(s))

\* the first k buffered bytes as a line
cutLine(s, k) ==
    [line |-> Take(s.buf, k), err |-> "nil", s |-> [s EXCEPT !.buf = Drop(s.buf, k)]]

RECURSIVE ReadSlice(_)
ReadSlice(s) ==
    IF IndexOf(s.buf, Ch.nl) > 0
    THEN cutLine(s, IndexOf(s.buf, Ch.nl))
    ELSE IF s.perr # "nil"
    THEN [line |-> s.buf, err |-> s.perr, s |-> [s EXCEPT !.buf = <<>>, !.perr = "nil"]]
    ELSE ReadSlice(fill(s))

\* csv.Reader.readLine: a last line without newline is a line, not EOF
lineOrEOF(r) == IF Len(r.line) > 0 /\ r.err = "EOF" THEN [r EXCEPT !.err = "nil"] ELSE r
readLine(s) == lineOrEOF(ReadSlice(s))

\* the head of readRecord: empty lines are skipped while reads succeed
RECURSIVE nextLine(_)
skipEmpty(r) == IF r.err = "nil" /\ r.line = <<Ch.nl>> THEN nextLine(r.s) ELSE r
nextLine(s) == skipEmpty(readLine(s))

\* readRecord's field loop for fields that do not begin with a quote: cut at
\* the next comma; a quote inside the field is ErrBareQuote and ends the
\* record with the fields parsed before it.  (No input of the model has a
\* field that begins with a quote, so the quoted-field branch is not needed.)
RECURSIVE parseField(_, _)
parseField(line, acc) ==
    LET i == IndexOf(line, Ch.comma)
        n == Len(line)
        field == IF i > 0 THEN Take(line, i - 1)
                 ELSE IF n > 0 /\ line[n] = Ch.nl THEN Take(line, n - 1) ELSE line
    IN  IF IndexOf(field, Ch.quote) > 0
        THEN [fields |-> acc, err |-> "ErrBareQuote"]
        ELSE IF i > 0 THEN parseField(Drop(line, i), Append(acc, field))
        ELSE [fields |-> Append(acc, field), err |-> "nil"]

\* csv.Reader.Read (readRecord): io.EOF at the end; otherwise the fields
\* parsed and the first error met; with FieldsPerRecord 0 the first record
\* read sets the expected count, and a later record of another count is
\* returned together with ErrFieldCount.
checkFieldCount(l, p) ==
    [rec |-> p.fields,
     err |-> IF p.err # "nil" THEN p.err
             ELSE IF l.err # "nil" THEN l.err
             ELSE IF l.s.fpr > 0 /\ Len(p.fields) # l.s.fpr THEN "ErrFieldCount"
             ELSE "nil",
     s   |-> [l.s EXCEPT !.fpr = IF l.s.fpr = 0 THEN Len(p.fields) ELSE l.s.fpr]]

recordOfLine(l) ==
    IF l.err = "EOF"
    THEN [rec |-> <<>>, err |-> "EOF", s |-> l.s]
    ELSE checkFieldCount(l, parseField(l.line, <<>>))

readRecord(s) == recordOfLine(nextLine(s))

\* csv.Reader.ReadAll: records up to io.EOF, or the first error and no records
RECURSIVE ReadAll(_, _)
collect(r, acc) ==
    IF r.err = "EOF" THEN [recs |-> acc, err |-> "nil"]
    ELSE IF r.err # "nil" THEN [recs |-> <<>>, err |-> r.err]
    ELSE ReadAll(r.s, Append(acc, r.rec))
ReadAll(s, acc) == collect(readRecord(s), acc)


(***************************************************************************)
(* The inputs that are tried.                                              *)
(***************************************************************************)
Name == [a |-> <<97>>, b |-> <<98>>, c |-> <<99>>,
         x |-> <<120>>, y |-> <<121>>, z |-> <<122>>, t |-> <<116>>]

\* type Schema struct (lines 18-23)
SchemaOf(column) ==
    [ColumnFrom |-> column[1], DataTypeFrom |-> column[2],
     ColumnTo |-> column[3], DataTypeTo |-> column[4]]

\* records of a mapping file: field lists
RecA == <<Name.a, Tag.int, Name.x, Tag.BIGINT>>
RecB == <<Name.b, Tag.varchar, Name.y, Tag.VARCHAR>>
RecC == <<Name.c, Tag.datetime, Name.z, Tag.DATETIME>>

\* the record lists of the mapping files: well-formed ones, ones whose
\* records all have the same wrong field count, and ones with mixed counts
SchemaRecLists ==
    { <<>>, <<RecA>>, <<RecA, RecB>>, <<RecB, RecA>>, <<RecA, RecC>>,
      <<Take(RecA, 3)>>, <<Take(RecA, 3), Take(RecB, 3)>>, <<Take(RecA, 1)>>,
      <<RecA, Take(RecB, 3)>>, <<Take(RecA, 3), RecB>>,
      <<RecA \o <<Name.z>>, RecB \o <<Name.z>> >> }

\* a record list as the bytes of a delimited text file
EncodeRecord(fields) == Join(fields, <<Ch.comma>>) \o <<Ch.nl>>
EncodeFile(recs) == Flatten([k \in 1..Len(recs) |-> EncodeRecord(recs[k])])

NoFile == [exists |-> FALSE, recs |-> <<>>, data |-> <<>>]
SchemaFiles ==
    {NoFile} \cup { [exists |-> TRUE, recs |-> r, data |-> EncodeFile(r)] : r \in SchemaRecLists }

\* schema lists handed to GenerateSQL directly
Schemas ==
    { [k \in 1..Len(r) |-> SchemaOf(r[k])] :
        r \in { <<>>, <<RecA>>, <<RecA, RecB>>, <<RecB, RecA>>, <<RecA, RecC>>, <<RecC>> } }

\* header lists handed to MapHeadersToSchema directly (one with a duplicate)
HeaderLists == { <<Name.a, Name.b>>, <<Name.a, Name.a>> }

\* data rows as lines of text: 1,2  3,4  5 (one field short)  7,8,9 (one
\* field too many)  and  6"7,8 (a bare quote in the first field, which
\* encoding/csv rejects)
RowLines ==
    { <<49, 44, 50, 10>>, <<51, 44, 52, 10>>, <<53, 10>>, <<55, 44, 56, 44, 57, 10>>,
      <<54, 34, 55, 44, 56, 10>> }

SeqsUpTo(S, n) == UNION { [1..m -> S] : m \in 0..n }

\* input files: an optional byte-order mark (or the first two bytes of one)
\* and a body of letters and newlines
Bodies == SeqsUpTo({97, Ch.nl}, MaxBody)
InputDatas == { p \o b : p \in {<<>>, BOM, Take(BOM, 2)}, b \in Bodies }

(***************************************************************************)
(* State.                                                                  *)
(***************************************************************************)
VARIABLES
    entry,          \* "main" or "GenerateSQL": where the run started
    pc,             \* the statement of main that runs next
    fatal,          \* the error main printed before returning, or "none"
    tableName,      \* args.TableName
    schemaFile,     \* the mapping file ReadSchema was given
    schema,         \* []Schema
    inputFile,      \* the input file and its handle: data, pos, state
    reader,         \* the io.Reader of main: bytes.Reader (+ the handle)
    readAfterClose, \* a Read was issued on the handle after Close
    headers,        \* the header record
    headerBuf,      \* bytes left in the buffer of ParseHeaders' csv.Reader
    headerIndexMap, \* map[string]int
    csvr,           \* inputReader of GenerateSQL
    outputSQL,      \* the strings.Builder of GenerateSQL
    i,              \* the loop counter of GenerateSQL
    rows,           \* the row lines the in-memory reader was loaded with
    emitted,        \* the rows for which a tuple was written, in order
    eof,            \* inputReader.Read returned io.EOF
    written,        \* calls of WriteSQLToFile
    outFile         \* <table>.SQL

vars == <<entry, pc, fatal, tableName, schemaFile, schema, inputFile, reader,
          readAfterClose, headers, headerBuf, headerIndexMap, csvr, outputSQL,
          i, rows, emitted, eof, written, outFile>>

NoHandle == [exists |-> FALSE, data |-> <<>>, pos |-> 0, state |-> "none"]
NoMap == [n \in {} |-> 0]

Fresh(e, p) ==
    /\ entry = e
    /\ pc = p
    /\ fatal = "none"
    /\ schemaFile = NoFile
    /\ inputFile = NoHandle
    /\ readAfterClose = FALSE
    /\ headerBuf = <<>>
    /\ headerIndexMap = NoMap
    /\ csvr = NewCsv
    /\ outputSQL = <<>>
    /\ i = 0
    /\ emitted = <<>>
    /\ eof = FALSE
    /\ written = 0
    /\ outFile = [exists |-> FALSE, data |-> <<>>]

\* main() at its first line
InitMain ==
    /\ Fresh("main", "ParseArgs")
    /\ tableName = <<>>
    /\ schema = <<>>
    /\ reader = [mem |-> <<>>, hasFile |-> FALSE]
    /\ headers = <<>>
    /\ rows = <<>>

\* main() at line 50, with a header list, a schema list and a reader that
\* holds the data rows in memory
InitGenerateSQL ==
    /\ Fresh("GenerateSQL", "MapHeadersToSchema")
    /\ tableName = Name.t
    /\ schema \in Schemas
    /\ headers \in HeaderLists
    /\ rows \in SeqsUpTo(RowLines, MaxRows)
    /\ reader = [mem |-> Flatten(rows), hasFile |-> FALSE]

Init == InitMain \/ InitGenerateSQL

(***************************************************************************)
(* main, lines 25-60, one action per call.                                 *)
(***************************************************************************)
\* `fmt.Println(err); return`
Fail(kind) == pc' = "exit" /\ fatal' = kind

\* lines 26-30 and ParseArgs (62-72)
ParseArgs ==
    /\ pc = "ParseArgs"
    /\ \E n \in 1..MaxArgs :
          IF n < 4
          THEN Fail("usage") /\ UNCHANGED tableName
          ELSE pc' = "ReadSchema" /\ tableName' = Name.t /\ UNCHANGED fatal
    /\ UNCHANGED <<entry, schemaFile, schema, inputFile, reader, readAfterClose,
                   headers, headerBuf, headerIndexMap, csvr, outputSQL, i, rows,
                   emitted, eof, written, outFile>>

\* the handle ReadSchema reads through: the file alone, open
SchemaChain(f) ==
    Chain(NewCsv, [mem |-> <<>>, hasFile |-> TRUE],
          [data |-> f.data, pos |-> 0, state |-> "open"], FALSE)

\* lines 87-95: column[0] .. column[3] of every record; indexing a record of
\* fewer than four fields panics (index out of range)
SchemaPanics(recs) == \E k \in 1..Len(recs) : Len(recs[k]) < 4

\* ReadSchema (74-98): "open" / "read" errors, a panic, or the list
schemaOfRecords(r) ==
    IF r.err # "nil" THEN [out |-> "err", kind |-> "schema read", list |-> <<>>]
    ELSE IF SchemaPanics(r.recs) THEN [out |-> "panic", kind |-> "none", list |-> <<>>]
    ELSE [out |-> "ok", kind |-> "none",
          list |-> [k \in 1..Len(r.recs) |-> SchemaOf(r.recs[k])]]

ReadSchemaResult(f) ==
    IF ~f.exists THEN [out |-> "err", kind |-> "schema open", list |-> <<>>]
    ELSE schemaOfRecords(ReadAll(SchemaChain(f), <<>>))

\* lines 32-36
ReadSchema ==
    /\ pc = "ReadSchema"
    /\ \E f \in SchemaFiles :
          /\ schemaFile' = f
          /\ \E r \in {ReadSchemaResult(f)} :
             CASE r.out = "err"   -> Fail(r.kind) /\ UNCHANGED schema
               [] r.out = "panic" -> pc' = "panic" /\ UNCHANGED <<fatal, schema>>
               [] OTHER           -> pc' = "ReadInputFile" /\ schema' = r.list /\ UNCHANGED fatal
    /\ UNCHANGED <<entry, tableName, inputFile, reader, readAfterClose,
                   headers, headerBuf, headerIndexMap, csvr, outputSQL, i, rows,
                   emitted, eof, written, outFile>>

\* removeBOM (185-190)
removeBOM(data) ==
    IF Len(data) >= 3 /\ data[1] = 239 /\ data[2] = 187 /\ data[3] = 191
    THEN Drop(data, 3)
    ELSE data

\* lines 107-108: b := make([]byte, 3); inputFile.Read(b): the first
\* min(3, size) bytes of the file land in b, the rest of b stays zero
Peek(data) ==
    LET n == IF Len(data) < 3 THEN Len(data) ELSE 3
    IN  [n |-> n, b |-> Take(data, n) \o [k \in 1..(3 - n) |-> Ch.nul]]

\* the state the handle is in when ReadInputFile returns: the deferred
\* inputFile.Close() of line 105 has run
HandleAtReturn == "closed"

\* lines 38-42 and ReadInputFile (100-114)
ReadInputFile ==
    /\ pc = "ReadInputFile"
    /\ \E e \in BOOLEAN, d \in InputDatas :
          IF ~e
          THEN /\ Fail("input open")
               /\ inputFile' = NoHandle
               /\ UNCHANGED reader
          ELSE LET p == Peek(d) IN
               /\ inputFile' = [exists |-> TRUE, data |-> d, pos |-> p.n,
                                state |-> HandleAtReturn]
               /\ IF p.n = 0
                  THEN Fail("peek") /\ UNCHANGED reader
                  ELSE /\ reader' = [mem |-> removeBOM(p.b), hasFile |-> TRUE]
                       /\ pc' = "ParseHeaders"
                       /\ UNCHANGED fatal
    /\ UNCHANGED <<entry, tableName, schemaFile, schema, readAfterClose,
                   headers, headerBuf, headerIndexMap, csvr, outputSQL, i, rows,
                   emitted, eof, written, outFile>>

\* lines 44-48 and ParseHeaders (116-124): a csv.Reader of its own reads one
\* record; what its buffer still holds goes away with it
ParseHeaders ==
    /\ pc = "ParseHeaders"
    /\ \E r \in {readRecord(Chain(NewCsv, reader, inputFile, readAfterClose))} :
       /\ reader' = ReaderOf(r.s)
       /\ inputFile' = [inputFile EXCEPT !.pos = r.s.fpos]
       /\ readAfterClose' = r.s.badRead
       /\ headerBuf' = r.s.buf
       /\ IF r.err # "nil"
          THEN Fail("headers") /\ UNCHANGED headers
          ELSE pc' = "MapHeadersToSchema" /\ headers' = r.rec /\ UNCHANGED fatal
    /\ UNCHANGED <<entry, tableName, schemaFile, schema, headerIndexMap, csvr,
                   outputSQL, i, rows, emitted, eof, written, outFile>>

\* MapHeadersToSchema as it would be if an earlier occurrence of a name were
\* kept (a lookup-before-insert slip)
MapHeadersFirstWins(hs) ==
    [h \in {hs[k] : k \in 1..Len(hs)} |->
        (CHOOSE k \in 1..Len(hs) : hs[k] = h /\ \A m \in 1..(k - 1) : hs[m] # h) - 1]

\* MapHeadersToSchema (126-132): each name to its zero-based position, a
\* later occurrence overwriting an earlier one
MapHeaders(hs) ==
    [h \in {hs[k] : k \in 1..Len(hs)} |->
        (CHOOSE k \in 1..Len(hs) : hs[k] = h /\ \A m \in (k + 1)..Len(hs) : hs[m] # h) - 1]

\* line 50
MapHeadersToSchema ==
    /\ pc = "MapHeadersToSchema"
    /\ headerIndexMap' = MapHeaders(headers)
    /\ pc' = "GenerateSQL"
    /\ UNCHANGED <<entry, fatal, tableName, schemaFile, schema, inputFile, reader,
                   readAfterClose, headers, headerBuf, csvr, outputSQL, i, rows,
                   emitted, eof, written, outFile>>

(***************************************************************************)
(* GenerateSQL, lines 134-178.                                             *)
(***************************************************************************)
\* convertData (192-207): every branch returns the value as it is
convertData(value, srcType, destType) ==
    CASE srcType = Tag.int ->
            (CASE destType = Tag.BIGINT  -> value
               [] destType = Tag.VARCHAR -> value
               [] OTHER                  -> value)
      [] srcType \in {Tag.nvarchar, Tag.varchar} -> value
      [] srcType = Tag.datetime -> value
      [] OTHER -> value

\* fmt.Sprintf("`%s`", s) and fmt.Sprintf("'%s'", s)
Backticked(s) == Lit.btick \o s \o Lit.btick
SingleQuoted(s) == Lit.squote \o s \o Lit.squote

\* lines 138-145: the statement head
StatementHead(table, sch) ==
    Lit.insertInto \o table \o Lit.openCols
      \o Join([k \in 1..Len(sch) |-> Backticked(sch[k].ColumnTo)], Lit.commaSp)
      \o Lit.values

\* line 164: headerIndexMap[column.ColumnFrom]; a Go map answers a missing
\* key with the zero value
headerIndex(m, column) ==
    IF column.ColumnFrom \in DOMAIN m THEN m[column.ColumnFrom] ELSE 0

\* line 158: a separator is written before the tuple when i > 0
needsSeparator(n) == n > 0

\* lines 163-173 from column j on: each value quoted, ", " between; row[k]
\* with k >= len(row) panics, leaving what was written before it
\* (vals collects the values written, for the record of emitted rows)
RECURSIVE writeValues(_, _, _, _, _, _)
writeValue(row, sch, m, j, acc, vals, v) ==
    writeValues(row, sch, m, j + 1,
                acc \o SingleQuoted(v) \o (IF j < Len(sch) THEN Lit.commaSp ELSE <<>>),
                Append(vals, v))
writeValues(row, sch, m, j, acc, vals) ==
    IF j > Len(sch) THEN [text |-> acc, panic |-> FALSE, vals |-> vals]
    ELSE IF headerIndex(m, sch[j]) >= Len(row)
    THEN [text |-> acc, panic |-> TRUE, vals |-> vals]
    ELSE writeValue(row, sch, m, j, acc, vals,
                    convertData(row[headerIndex(m, sch[j]) + 1],
                                sch[j].DataTypeFrom, sch[j].DataTypeTo))

\* lines 135-145: the csv.Reader of GenerateSQL and the statement head
GenerateSQLBegin ==
    /\ pc = "GenerateSQL"
    /\ csvr' = NewCsv
    /\ outputSQL' = StatementHead(tableName, schema)
    /\ i' = 0
    /\ pc' = "rows"
    /\ UNCHANGED <<entry, fatal, tableName, schemaFile, schema, inputFile, reader,
                   readAfterClose, headers, headerBuf, headerIndexMap, rows,
                   emitted, eof, written, outFile>>

\* lines 147-175: one iteration of the row loop
GenerateSQLRow ==
    /\ pc = "rows"
    /\ i < MaxIter
    /\ \E r \in {readRecord(Chain(csvr, reader, inputFile, readAfterClose))} :
       /\ csvr' = CsvOf(r.s)
       /\ reader' = ReaderOf(r.s)
       /\ inputFile' = [inputFile EXCEPT !.pos = r.s.fpos]
       /\ readAfterClose' = r.s.badRead
       /\ CASE r.err = "EOF" ->
                 /\ outputSQL' = outputSQL \o Lit.semiNl
                 /\ eof' = TRUE
                 /\ pc' = "WriteSQLToFile"
                 /\ UNCHANGED <<i, emitted>>
            [] r.err \notin {"nil", "EOF"} ->
                 /\ i' = i + 1
                 /\ UNCHANGED <<outputSQL, eof, pc, emitted>>
            [] OTHER ->
                 \E w \in {writeValues(r.rec, schema, headerIndexMap, 1,
                              outputSQL \o (IF needsSeparator(i) THEN Lit.commaNl ELSE <<>>)
                                        \o Lit.lparen, <<>>)} :
                     IF w.panic
                     THEN /\ outputSQL' = w.text
                          /\ pc' = "panic"
                          /\ UNCHANGED <<i, eof, emitted>>
                     ELSE /\ outputSQL' = w.text \o Lit.rparen
                          /\ emitted' = Append(emitted, w.vals)
                          /\ i' = i + 1
                          /\ UNCHANGED <<eof, pc>>
    /\ UNCHANGED <<entry, fatal, tableName, schemaFile, schema, headers, headerBuf,
                   headerIndexMap, rows, written, outFile>>

\* the write as it would be if it were issued from inside the row loop (the
\* statement flushed as it grows)
canWriteInLoop == pc \in {"rows", "WriteSQLToFile"}

\* line 54 is reached when GenerateSQL has returned
canWrite == pc = "WriteSQLToFile"

\* lines 54-59 and WriteSQLToFile (180-183): os.WriteFile succeeds or fails
WriteSQLToFile ==
    /\ canWrite
    /\ written' = written + 1
    /\ \E ok \in BOOLEAN :
          IF ok
          THEN /\ outFile' = [exists |-> TRUE, data |-> outputSQL]
               /\ pc' = "done"
               /\ UNCHANGED fatal
          ELSE /\ Fail("write")
               /\ UNCHANGED outFile
    /\ UNCHANGED <<entry, tableName, schemaFile, schema, inputFile, reader,
                   readAfterClose, headers, headerBuf, headerIndexMap, csvr,
                   outputSQL, i, rows, emitted, eof>>

Next ==
    \/ ParseArgs
    \/ ReadSchema
    \/ ReadInputFile
    \/ ParseHeaders
    \/ MapHeadersToSchema
    \/ GenerateSQLBegin
    \/ GenerateSQLRow
    \/ WriteSQLToFile

Spec == Init /\ [][Next]_vars

(***************************************************************************)
(* What the specification says of a run, computed from the inputs alone.   *)
(***************************************************************************)
\* the fields of a row line: the text before the newline, cut at commas
RECURSIVE SplitAtCommas(_)
SplitAtCommas(text) ==
    IF IndexOf(text, Ch.comma) = 0 THEN <<text>>
    ELSE <<Take(text, IndexOf(text, Ch.comma) - 1)>>
           \o SplitAtCommas(Drop(text, IndexOf(text, Ch.comma)))

RowFields(line) == SplitAtCommas(Take(line, Len(line) - 1))

\* a row parses: no stray quote, and as many fields as the header has
WellFormed(line) == IndexOf(line, Ch.quote) = 0
RowValid(line) == WellFormed(line) /\ Len(RowFields(line)) = Len(headers)
BadFieldCount(line) == WellFormed(line) /\ Len(RowFields(line)) # Len(headers)

HeaderNames == {headers[k] : k \in 1..Len(headers)}
AllSourcesInHeader == \A j \in 1..Len(schema) : schema[j].ColumnFrom \in HeaderNames

\* the zero-based header position of a name (the last one, if it repeats)
HeaderPosition(name) ==
    (CHOOSE k \in 1..Len(headers) :
        headers[k] = name /\ \A m \in 1..Len(headers) : headers[m] = name => m <= k) - 1

\* the values the statement should hold for a valid row, in schema order
ExpectedTuple(line) ==
    [j \in 1..Len(schema) |-> RowFields(line)[HeaderPosition(schema[j].ColumnFrom) + 1]]

RECURSIVE SelectValid(_)
SelectValid(lines) ==
    IF lines = <<>> THEN <<>>
    ELSE (IF RowValid(Head(lines)) THEN <<Head(lines)>> ELSE <<>>) \o SelectValid(Tail(lines))

ExpectedTuples(lines) ==
    [k \in 1..Len(SelectValid(lines)) |-> ExpectedTuple(SelectValid(lines)[k])]

\* section 4.5: the statement for a list of tuples
RECURSIVE CommaList(_, _)
CommaList(items, q) ==
    IF items = <<>> THEN <<>>
    ELSE q \o Head(items) \o q
           \o (IF Len(items) > 1 THEN Lit.commaSp ELSE <<>>) \o CommaList(Tail(items), q)

TupleText(vals) == Lit.lparen \o CommaList(vals, Lit.squote) \o Lit.rparen

RECURSIVE TupleLines(_)
TupleLines(tuples) ==
    IF tuples = <<>> THEN <<>>
    ELSE TupleText(Head(tuples))
           \o (IF Len(tuples) > 1 THEN Lit.commaNl ELSE <<>>) \o TupleLines(Tail(tuples))

StatementOf(tuples) ==
    Lit.insertInto \o tableName \o Lit.openCols
      \o CommaList([j \in 1..Len(schema) |-> schema[j].ColumnTo], Lit.btick)
      \o Lit.values \o TupleLines(tuples) \o Lit.semiNl

\* the bytes a reader chain still delivers before it ends or fails
Deliverable ==
    reader.mem \o (IF reader.hasFile /\ inputFile.state = "open"
                   THEN Drop(inputFile.data, inputFile.pos) ELSE <<>>)

\* the input without a leading byte-order mark
StripMark(data) == IF Len(data) >= 3 /\ Take(data, 3) = BOM THEN Drop(data, 3) ELSE data

\* the text that follows the first record (empty lines before it skipped)
RECURSIVE AfterFirstRecord(_)
AfterFirstRecord(text) ==
    IF IndexOf(text, Ch.nl) = 0 THEN <<>>
    ELSE IF IndexOf(text, Ch.nl) = 1 THEN AfterFirstRecord(Tail(text))
    ELSE Drop(text, IndexOf(text, Ch.nl))

Streamed == entry = "GenerateSQL" /\ eof

(***************************************************************************)
(* The claims.                                                             *)
(***************************************************************************)

\* C1: when every schema source column is in the header and every data row
\* parses (well-formed, with the header's field count), GenerateSQL never
\* panics and, once the rows are read, has emitted one tuple per row in row
\* order, each holding the row's fields at the header positions of the
\* schema's source columns in schema order, and the text is the statement
\* with the N back-quoted destination names in schema order and those M
\* tuples.
C1_StatementOfValidRows ==
    (entry = "GenerateSQL" /\ AllSourcesInHeader /\ \A k \in 1..Len(rows) : RowValid(rows[k]))
    => /\ pc # "panic"
       /\ eof => /\ emitted = [k \in 1..Len(rows) |-> ExpectedTuple(rows[k])]
                 /\ outputSQL = StatementOf(emitted)

\* a run with two columns taken in another order than the header's and two
\* different rows has been written out
C1_Witness ==
    /\ pc = "done" /\ entry = "GenerateSQL" /\ AllSourcesInHeader
    /\ \A k \in 1..Len(rows) : RowValid(rows[k])
    /\ Len(schema) = 2 /\ schema[1].ColumnFrom = Name.b /\ headers[1] = Name.a
    /\ Len(rows) >= 2 /\ rows[1] # rows[2]
    /\ Len(emitted) = Len(rows)

\* C2: a row with an invalid field count is skipped wherever it stands: the
\* run does not crash, and once the rows are read exactly the valid rows
\* have contributed their tuples, in order.
C2_BadCountRowSkipped ==
    (entry = "GenerateSQL" /\ AllSourcesInHeader
       /\ \A k \in 1..Len(rows) : RowValid(rows[k]) \/ BadFieldCount(rows[k]))
    => /\ pc # "panic"
       /\ eof => emitted = ExpectedTuples(rows)

\* C3: the statement body is the emitted tuples joined by comma-newline and
\* closed by semicolon-newline, whatever rows were skipped and wherever.
C3_TuplesJoined == Streamed => outputSQL = StatementOf(emitted)

\* C4: when a schema entry's source column is not in the header, no tuple
\* is ever emitted (the lookup fails instead of taking field zero).
C4_AbsentColumnFails ==
    (pc \in {"rows", "WriteSQLToFile", "done", "exit", "panic"} /\ ~AllSourcesInHeader)
    => emitted = <<>>

\* C5: when ReadInputFile has returned a reader, the bytes the reader
\* delivers are the bytes of the file without a leading byte-order mark:
\* none lost, none added.
C5_LogicalStream ==
    (entry = "main" /\ pc = "ParseHeaders") => Deliverable = StripMark(inputFile.data)

\* C6: WriteSQLToFile is called at most once and only after the row stream
\* has reached its end; in a run that ended on one of the fatal conditions
\* it was never called and no output file exists; a file that exists holds
\* the finished statement.
C6_WriteOnceAfterEOF ==
    /\ written <= 1
    /\ written = 1 => eof /\ pc \in {"done", "exit"}
    /\ fatal \in {"usage", "schema open", "schema read", "input open", "peek", "headers"}
          => written = 0 /\ ~outFile.exists
    /\ outFile.exists => written = 1 /\ outFile.data = outputSQL

\* the statement of a finished stream with at least one tuple is on disk
C6_Witness ==
    /\ pc = "done" /\ written = 1 /\ eof /\ outFile.exists
    /\ emitted # <<>> /\ fatal = "none"

\* C7: for a mapping file in which some record has fewer than four fields,
\* ReadSchema returns the read error (and main stops on it).
C7_ShortRecordIsError ==
    (schemaFile.exists /\ \E k \in 1..Len(schemaFile.recs) : Len(schemaFile.recs[k]) < 4)
    => pc = "exit" /\ fatal = "schema read"

\* C8: no Read is ever issued on the input handle after it was closed.
C8_NoReadAfterClose == ~readAfterClose

\* C9: when ParseHeaders has returned the header (of an input of at least
\* the three peeked bytes), its read-ahead buffer holds no input bytes and
\* the reader delivers exactly the text that follows the header record.
C9_PositionedAfterHeader ==
    (entry = "main" /\ pc = "MapHeadersToSchema" /\ Len(inputFile.data) >= 3)
    => /\ headerBuf = <<>>
       /\ Deliverable = AfterFirstRecord(StripMark(inputFile.data))

\* C10: the row loop terminates: it is never in a state where a read fails
\* with an error other than end-of-stream and leaves the whole reader chain
\* as it was (from such a state every later read does the same).
C10_RowLoopTerminates ==
    pc = "rows"
    => \A r \in {readRecord(Chain(csvr, reader, inputFile, readAfterClose))} :
          ~ /\ r.err \notin {"nil", "EOF"}
            /\ CsvOf(r.s) = csvr
            /\ ReaderOf(r.s) = reader
            /\ r.s.fpos = inputFile.pos

=============================================================================
